---- MODULE Spec2Model ----
(***************************************************************************)
(* Model of the agentic shopper: agent.py (price ranking, browser          *)
(* controller, scrapers, action executor) and app.py (the three request    *)
(* handlers over the in-memory SESSIONS table).                            *)
(***************************************************************************)
EXTENDS Integers, Sequences, FiniteSets, TLC

VARIABLES
    rk_products,     \* rank(): the `products` argument
    rk_constraints,  \* rank(): the `constraints` argument
    rk_prefer_low,   \* ProductSelector.prefer_low_price
    rk_out,          \* rank(): returned list, as positions of the input list
    rk_pc,           \* "input" before the call, "ranked" after it
    ex_op,           \* ActionExecutor: the operation being run
    ex_i,            \* ActionExecutor: position of the next candidate locator
    ex_log,          \* ActionExecutor: <<locator, outcome>> of every attempt made
    ex_result,       \* ActionExecutor: "running", "true", "false" or "raised"
    gn_i,            \* search_generic: position of the next URL template
    gn_results,      \* search_generic: the `results` list
    gn_log,          \* search_generic: <<template, outcome, records>> per visit
    gn_ret,          \* search_generic: "running", "returned" or "raised"
    rq_kind,         \* one request: "discover", "choose" or "checkout"
    rq_url,          \* one request: url of the product chosen / being chosen
    rq_shipping,     \* one request: body.shipping: "none", "empty" or "filled"
    rq_pc,           \* one request: the await it is suspended at
    rq_bc,           \* one request: state of its BrowserController's resources
    rq_exc,          \* one request: an exception is propagating out of the body
    rq_log,          \* one request: page interactions started, in order
    rq_flags,        \* one request: locals added, proceeded, filled
    rq_teardown,     \* one request: close calls made by __aexit__, in order
    rq_resp,         \* one request: what the caller receives
    rq_before,       \* one request: its session's fields when the request arrived
    rq_session,      \* one request: its session's fields now
    SESSIONS,        \* app.py: the session table, session id -> session
    inflight,        \* the choose requests suspended at an await
    nreq,            \* number of requests received so far
    choseDone,       \* ids of the sessions on which a choose has returned
    listing,         \* session id -> the product summaries built for its discover response
    alone,           \* session id -> the session as its own requests alone leave it
    writer,          \* session id -> the request that last assigned each field
    returned,        \* ids of the choose requests that returned a response
    ev,              \* what the last step did: the request and its outcome
    pl_request,      \* planning: what the heuristic reads in user_request
    pl_text,         \* planning: the text the oracle returned
    pl_products,     \* planning: the list the scrapers return to plan_and_search
    pl_pc,           \* planning: "oracle", "planned", "unpacked", "ranked", "raised"
    pl_plan,         \* planning: the value plan() returned
    pl_constraints,  \* planning: the `constraints` dict of plan_and_search
    pl_ranked,       \* planning: the list rank() returned
    fs_shipping,     \* fill_shipping: the `shipping` dict, key -> value
    fs_k,            \* fill_shipping: position of the current key of `mapping`
    fs_c,            \* fill_shipping: position of the next candidate of that key
    fs_tried,        \* fill_shipping: key -> number of query_selector calls made
    fs_fills,        \* fill_shipping: key -> number of el.fill calls that returned
    fs_last,         \* fill_shipping: <<key, candidate, outcome>> of the last attempt
    fs_success,      \* fill_shipping: the local `success`
    fs_result        \* fill_shipping: "running", "true", "false" or "raised"

rankVars == <<rk_products, rk_constraints, rk_prefer_low, rk_out, rk_pc>>

execVars == <<ex_op, ex_i, ex_log, ex_result>>

genVars == <<gn_i, gn_results, gn_log, gn_ret>>

reqVars == <<rq_kind, rq_url, rq_shipping, rq_pc, rq_bc, rq_exc, rq_log, rq_flags,
             rq_teardown, rq_resp, rq_before, rq_session>>

wfVars == <<SESSIONS, inflight, nreq, choseDone, listing, alone, writer, returned, ev>>

planVars == <<pl_request, pl_text, pl_products, pl_pc, pl_plan, pl_constraints,
              pl_ranked>>

fillVars == <<fs_shipping, fs_k, fs_c, fs_tried, fs_fills, fs_last, fs_success,
              fs_result>>

vars == <<rankVars, execVars, genVars, reqVars, wfVars, planVars, fillVars>>

(***************************************************************************)
(* Bounds of the model.                                                    *)
(***************************************************************************)
MaxLen == 3          \* longest product list handed to rank()
MaxPrice == 2        \* largest price / max_price drawn as an input
MaxAnchors == 2      \* most anchors on a page search_generic parses
MaxRequests == 3     \* number of requests the service receives
MaxFields == 2       \* most keys of the shipping dict handed to fill_shipping

(***************************************************************************)
(* Values.                                                                 *)
(***************************************************************************)
\* Optional[float] price that is None (prices parsed by parse_price are >= 0).
NoPrice == -1

Range(s) == {s[i] : i \in DOMAIN s}

SeqsUpTo(S, n) == UNION {[1..k -> S] : k \in 0..n}

\* Characters of titles and keywords; str.lower() on one character.
Chars == {"a", "A", "b"}

LowerChar(c) == IF c = "A" THEN "a" ELSE c

\* str.lower()
Lower(s) == [i \in DOMAIN s |-> LowerChar(s[i])]

\* Python `sub in s` on strings: substring containment ("" is in every string).
Contains(sub, s) ==
    \E i \in 1..(Len(s) + 1) :
        /\ i + Len(sub) - 1 <= Len(s)
        /\ SubSeq(s, i, i + Len(sub) - 1) = sub

Titles == {<<"A", "b">>, <<"b">>}

Keywords == {<<"a">>, <<"A">>, <<"a", "b">>}

Prices == {NoPrice} \cup (0..MaxPrice)

RankProducts == [title : Titles, price : Prices]

MustHaves == {<<>>} \cup {<<k>> : k \in Keywords} \cup {<<<<"a">>, <<"b">>>>}

RankConstraints == [max_price : Prices, must_have : MustHaves]

(***************************************************************************)
(* ProductSelector.rank                                                    *)
(***************************************************************************)
\* The loop body of rank(): TRUE when product p is appended to `filtered`.
Keep_NoPriceCheck(p, constraints) ==
    \/ constraints.must_have = <<>>
    \/ \A i \in DOMAIN constraints.must_have :
          Contains(Lower(constraints.must_have[i]), Lower(p.title))

Keep(p, constraints) ==
    /\ ~ ( /\ constraints.max_price # NoPrice
           /\ p.price # NoPrice
           /\ p.price > constraints.max_price )
    /\ \/ constraints.must_have = <<>>
       \/ \A i \in DOMAIN constraints.must_have :
             Contains(Lower(constraints.must_have[i]), Lower(p.title))

\* The filter pass, as the positions (in input order) of the products kept.
RECURSIVE FilterFrom(_, _, _)
FilterFrom(products, constraints, i) ==
    IF i > Len(products) THEN <<>>
    ELSE (IF Keep(products[i], constraints) THEN <<i>> ELSE <<>>)
         \o FilterFrom(products, constraints, i + 1)

FilterPass(products, constraints) == FilterFrom(products, constraints, 1)

\* `if not filtered: filtered = products[:]`
Fallback_Skip(filtered, n) == filtered

Fallback(filtered, n) ==
    IF filtered = <<>> THEN [i \in 1..n |-> i] ELSE filtered

\* score(): the sort key; a price that is None or 0 is falsy and adds nothing.
Score(p) == IF p.price # NoPrice /\ p.price # 0 THEN p.price ELSE 0

\* list.sort(key=score, reverse=r) orders a before b when this holds.
Precedes(a, b, reverse) == IF reverse THEN a > b ELSE a < b

\* Number of already placed elements the new element x goes after: list.sort
\* is stable (also under reverse=True), so x goes after every element that
\* does not have to come after it.
InsertPos_BeforeTies(sorted, x, products, reverse) ==
    Cardinality({j \in DOMAIN sorted :
        Precedes(Score(products[sorted[j]]), Score(products[x]), reverse)})

InsertPos(sorted, x, products, reverse) ==
    Cardinality({j \in DOMAIN sorted :
        ~ Precedes(Score(products[x]), Score(products[sorted[j]]), reverse)})

InsertAt(s, pos, x) == SubSeq(s, 1, pos) \o <<x>> \o SubSeq(s, pos + 1, Len(s))

RECURSIVE SortFrom(_, _, _, _, _)
SortFrom(idxs, i, sorted, products, reverse) ==
    IF i > Len(idxs) THEN sorted
    ELSE SortFrom(idxs, i + 1,
                  InsertAt(sorted, InsertPos(sorted, idxs[i], products, reverse), idxs[i]),
                  products, reverse)

StableSort(idxs, products, reverse) == SortFrom(idxs, 1, <<>>, products, reverse)

\* rank(): the returned list as positions of `products` (object identity).
RankIdx(products, constraints, prefer_low_price) ==
    StableSort(Fallback(FilterPass(products, constraints), Len(products)),
               products, ~ prefer_low_price)

Rank(products, constraints, prefer_low_price) ==
    LET idx == RankIdx(products, constraints, prefer_low_price)
    IN  [i \in DOMAIN idx |-> products[idx[i]]]

(***************************************************************************)
(* Specification of rank() on drawn inputs.                                *)
(***************************************************************************)
\* An Optional value: <<>> for None, <<x>> for x.
None == <<>>

Some(x) == <<x>>

\* The fields of a session that choose assigns, as plan_and_search stores
\* them (`chosen` absent reads as None).
NoFields == [page_url |-> None, chosen |-> None, last_page_html |-> None]

RankIdle ==
    /\ rk_products = <<>>
    /\ rk_constraints = [max_price |-> NoPrice, must_have |-> <<>>]
    /\ rk_prefer_low = TRUE
    /\ rk_out = <<>>
    /\ rk_pc = "idle"

ExecIdle ==
    /\ ex_op = "idle"
    /\ ex_i = 0
    /\ ex_log = <<>>
    /\ ex_result = "idle"

GenIdle ==
    /\ gn_i = 0
    /\ gn_results = <<>>
    /\ gn_log = <<>>
    /\ gn_ret = "idle"

ReqIdle ==
    /\ rq_kind = "idle"
    /\ rq_url = ""
    /\ rq_shipping = "none"
    /\ rq_pc = "idle"
    /\ rq_bc = [playwright |-> "none", browser |-> "none", context |-> "none"]
    /\ rq_exc = FALSE
    /\ rq_log = <<>>
    /\ rq_flags = [added |-> FALSE, proceeded |-> FALSE, filled |-> FALSE]
    /\ rq_teardown = <<>>
    /\ rq_resp = [status |-> "idle", note |-> ""]
    /\ rq_before = NoFields
    /\ rq_session = NoFields


NoEvent ==
    [rid |-> 0, kind |-> "none", sid |-> 0, url |-> None, idx |-> None,
     shipping |-> "none", status |-> "none", browser |-> FALSE, nav |-> None]

\* `SESSIONS: Dict[str, Dict[str, Any]] = {}`
WfIdle ==
    /\ SESSIONS = << >>
    /\ inflight = {}
    /\ nreq = 0
    /\ choseDone = {}
    /\ listing = << >>
    /\ alone = << >>
    /\ writer = << >>
    /\ returned = {}
    /\ ev = NoEvent

PlanIdle ==
    /\ pl_request = [under |-> NoPrice, stores |-> {}]
    /\ pl_text = [wrap |-> "none", json |-> "not_json"]
    /\ pl_products = <<>>
    /\ pl_pc = "idle"
    /\ pl_plan = [t |-> "none"]
    /\ pl_constraints = [t |-> "none"]
    /\ pl_ranked = <<>>

FillIdle ==
    /\ fs_shipping = << >>
    /\ fs_k = 0
    /\ fs_c = 0
    /\ fs_tried = << >>
    /\ fs_fills = << >>
    /\ fs_last = << >>
    /\ fs_success = FALSE
    /\ fs_result = "idle"

InitRank ==
    /\ PlanIdle
    /\ FillIdle
    /\ ExecIdle
    /\ GenIdle
    /\ ReqIdle
    /\ WfIdle
    /\ rk_products \in SeqsUpTo(RankProducts, MaxLen)
    /\ rk_constraints \in RankConstraints
    /\ rk_prefer_low \in BOOLEAN
    /\ rk_out = <<>>
    /\ rk_pc = "input"

RankCall ==
    /\ rk_pc = "input"
    /\ rk_out' = RankIdx(rk_products, rk_constraints, rk_prefer_low)
    /\ rk_pc' = "ranked"
    /\ UNCHANGED <<rk_products, rk_constraints, rk_prefer_low>>
    /\ UNCHANGED <<execVars, genVars, reqVars, wfVars, planVars, fillVars>>

NextRank == RankCall

SpecRank == InitRank /\ [][NextRank]_vars

(***************************************************************************)
(* Claims about rank().                                                    *)
(***************************************************************************)
\* C3: rank never returns an empty sequence when its input list is non-empty,
\* whatever max_price and must_have are.
C3_RankNeverEmpty ==
    (rk_pc = "ranked" /\ rk_products # <<>>) => rk_out # <<>>

\* C3 witness: a ranked non-empty input none of whose products passes the
\* filter, so the output is built from the whole list.
C3_Witness ==
    /\ rk_pc = "ranked"
    /\ Len(rk_products) >= 2
    /\ rk_constraints.max_price # NoPrice
    /\ rk_constraints.must_have # <<>>
    /\ \A i \in DOMAIN rk_products :
          \/ (rk_products[i].price # NoPrice
              /\ rk_products[i].price > rk_constraints.max_price)
          \/ \E k \in Range(rk_constraints.must_have) :
                ~ Contains(Lower(k), Lower(rk_products[i].title))
    /\ Len(rk_out) = Len(rk_products)

\* A product passes the filter of the specification: not over the price
\* ceiling, and its lower-cased title contains every required keyword.
PassesFilter(p, c) ==
    /\ (c.max_price # NoPrice /\ p.price # NoPrice) => p.price <= c.max_price
    /\ \A k \in Range(c.must_have) : Contains(Lower(k), Lower(p.title))

\* C4: with max_price = P every priced product of the output has price <= P,
\* unless the filter pass eliminated every candidate, in which case the output
\* is the full unfiltered list.
C4_PriceCeiling ==
    (rk_pc = "ranked" /\ rk_constraints.max_price # NoPrice) =>
        IF \E i \in DOMAIN rk_products : PassesFilter(rk_products[i], rk_constraints)
        THEN \A i \in DOMAIN rk_out :
                rk_products[rk_out[i]].price # NoPrice =>
                    rk_products[rk_out[i]].price <= rk_constraints.max_price
        ELSE /\ Len(rk_out) = Len(rk_products)
             /\ Range(rk_out) = DOMAIN rk_products

\* C4 witness: a ceiling that removes one priced product and keeps another,
\* next to an unpriced product that stays.
C4_Witness ==
    /\ rk_pc = "ranked"
    /\ rk_constraints.max_price # NoPrice
    /\ \E i, j, k \in DOMAIN rk_products :
          /\ rk_products[i].price # NoPrice
          /\ rk_products[i].price > rk_constraints.max_price
          /\ i \notin Range(rk_out)
          /\ rk_products[j].price # NoPrice
          /\ j \in Range(rk_out)
          /\ rk_products[k].price = NoPrice
          /\ k \in Range(rk_out)

\* The price a product sorts by: an unpriced product sorts as if priced zero.
SortPrice(p) == IF p.price = NoPrice THEN 0 ELSE p.price

\* C5: ranking is stable: two products of the output with equal sort price
\* (two unpriced ones, or an unpriced one and one priced 0, included) are in
\* the output in the order they had in the input.
C5_StableRanking ==
    rk_pc = "ranked" =>
        \A i, j \in DOMAIN rk_out :
            ( /\ i < j
              /\ SortPrice(rk_products[rk_out[i]]) = SortPrice(rk_products[rk_out[j]]) )
            => rk_out[i] < rk_out[j]

\* C5 witness: ascending ranking of an input that holds, after a dearer
\* product, an unpriced product followed by a product priced 0.
C5_Witness ==
    /\ rk_pc = "ranked"
    /\ rk_prefer_low
    /\ Len(rk_out) = 3
    /\ rk_products[1].price > 0
    /\ rk_products[2].price = NoPrice
    /\ rk_products[3].price = 0
    /\ rk_out = <<2, 3, 1>>

(***************************************************************************)
(* ActionExecutor.attempt_add_to_cart                                      *)
(***************************************************************************)
add_selectors ==
    << "button#add-to-cart-button",
       "input#add-to-cart-button",
       "button[name='add']",
       "button.add-to-cart",
       "button:has-text('Add to cart')",
       "button:has-text('Add to Cart')",
       "button:has-text('Add to Basket')" >>

\* What the page can do to one candidate of attempt_add_to_cart: the element
\* is absent (query_selector returns None), one of the five awaited calls
\* raises, or all five complete.
AddOutcomes ==
    {"absent", "raise_query", "raise_scroll", "raise_pause1", "raise_click",
     "raise_pause2", "ok"}

\* The outcomes in which el.click() returned.
ClickCompleted(outcome) == outcome \in {"raise_pause2", "raise_pause", "ok"}

\* One iteration of the loop of attempt_add_to_cart: "true" for `return True`,
\* "continue" for the next candidate, "raised" for an escaping exception.
AddCandidate_Unguarded(outcome) ==
    CASE outcome = "ok" -> "true"
      [] outcome = "absent" -> "continue"
      [] OTHER -> "raised"

AddCandidate(outcome) ==
    CASE outcome = "ok" -> "true"
      [] outcome = "absent" -> "continue"       \* `if el:` is false
      [] OTHER -> "continue"                    \* `except Exception: continue`

\* The value the loop leaves the operation with after a candidate at position
\* i of n: the candidate's own result, or `return False` after the last one.
AfterCandidate(step, i, n) ==
    IF step = "continue" /\ i = n THEN "false"
    ELSE IF step = "continue" THEN "running"
    ELSE step

AddToCartStep ==
    /\ ex_op = "add"
    /\ ex_result = "running"
    /\ \E outcome \in AddOutcomes :
          /\ ex_log' = Append(ex_log, <<add_selectors[ex_i], outcome>>)
          /\ ex_result' = AfterCandidate(AddCandidate(outcome), ex_i, Len(add_selectors))
          /\ ex_i' = ex_i + 1
    /\ UNCHANGED ex_op
    /\ UNCHANGED <<rankVars, genVars, reqVars, wfVars, planVars, fillVars>>

\* go_to_cart and proceed_to_checkout: the candidate locators, and the path
\* of the direct navigation tried after them.
cart_selectors ==
    << "a#nav-cart",
       "a[href*='/cart']",
       "a[aria-label*='cart']",
       "a:has-text('Cart')",
       "a:has-text('Basket')" >>

checkout_selectors ==
    << "a#hlb-ptc-btn-native",
       "a[href*='/checkout']",
       "button:has-text('Proceed to checkout')",
       "button:has-text('Checkout')" >>

Selectors(op) ==
    CASE op = "add" -> add_selectors
      [] op = "cart" -> cart_selectors
      [] op = "proceed" -> checkout_selectors

DirectPath(op) == IF op = "cart" THEN "/cart" ELSE "/checkout"

\* What the page can do to one candidate of go_to_cart / proceed_to_checkout:
\* the element is absent, one of the three awaited calls raises, or all three
\* complete.
NavOutcomes == {"absent", "raise_query", "raise_click", "raise_pause", "ok"}

\* One iteration of the loop of go_to_cart / proceed_to_checkout.
NavCandidate(outcome) ==
    CASE outcome = "ok" -> "true"            \* `return True`
      [] OTHER -> "continue"                 \* `if el:` false, or `except: continue`

\* A candidate locator of go_to_cart / proceed_to_checkout is tried.
NavStep ==
    /\ ex_op \in {"cart", "proceed"}
    /\ ex_result = "running"
    /\ ex_i <= Len(Selectors(ex_op))
    /\ \E outcome \in NavOutcomes :
          /\ ex_log' = Append(ex_log, <<Selectors(ex_op)[ex_i], outcome>>)
          /\ ex_result' = IF NavCandidate(outcome) = "true" THEN "true" ELSE "running"
          /\ ex_i' = ex_i + 1
    /\ UNCHANGED ex_op
    /\ UNCHANGED <<rankVars, genVars, reqVars, wfVars, planVars, fillVars>>

\* The direct navigation: page.goto(base + path) and the pause can raise.
DirectOutcomes == {"raise_goto", "raise_pause", "ok"}

\* The `try:` after the loop: True when goto and pause returned, else the
\* `except Exception: pass` and `return False`.
DirectNav(outcome) == IF outcome = "ok" THEN "true" ELSE "false"

\* Every locator failed: the direct navigation is tried.
NavDirectStep ==
    /\ ex_op \in {"cart", "proceed"}
    /\ ex_result = "running"
    /\ ex_i = Len(Selectors(ex_op)) + 1
    /\ \E outcome \in DirectOutcomes :
          /\ ex_log' = Append(ex_log, <<DirectPath(ex_op), outcome>>)
          /\ ex_result' = DirectNav(outcome)
          /\ ex_i' = ex_i + 1
    /\ UNCHANGED ex_op
    /\ UNCHANGED <<rankVars, genVars, reqVars, wfVars, planVars, fillVars>>

InitExec ==
    /\ PlanIdle
    /\ FillIdle
    /\ RankIdle
    /\ GenIdle
    /\ ReqIdle
    /\ WfIdle
    /\ ex_op \in {"add", "cart", "proceed"}
    /\ ex_i = 1
    /\ ex_log = <<>>
    /\ ex_result = "running"

NextExec ==
    \/ AddToCartStep
    \/ NavStep
    \/ NavDirectStep

SpecExec == InitExec /\ [][NextExec]_vars

(***************************************************************************)
(* Claims about the ActionExecutor.                                        *)
(***************************************************************************)
\* C6: addToCart returns false, without raising, whenever every candidate
\* locator fails (element absent, or query, scroll, pause, click or pause
\* raises), and returns true only if some candidate's click completed.
C6_AddToCartSoftFailure ==
    (ex_op = "add" /\ ex_result # "running") =>
        /\ ex_result \in {"true", "false"}
        /\ (\A k \in DOMAIN ex_log : ex_log[k][2] # "ok") => ex_result = "false"
        /\ ex_result = "true" =>
              \E k \in DOMAIN ex_log : ClickCompleted(ex_log[k][2])

\* C6 witness: all seven candidates were tried and failed, one of them by an
\* error raised by the click and one by an absent element, and the operation
\* returned false.
C6_Witness ==
    /\ ex_op = "add"
    /\ ex_result = "false"
    /\ Len(ex_log) = Len(add_selectors)
    /\ \E k \in DOMAIN ex_log : ex_log[k][2] = "raise_click"
    /\ \E k \in DOMAIN ex_log : ex_log[k][2] = "absent"

\* The attempts of the log made on candidate locators (not the direct
\* navigation).
C17_LocatorAttempts ==
    {k \in DOMAIN ex_log : k <= Len(Selectors(ex_op))}

\* C17: within one operation (attempt_add_to_cart, go_to_cart,
\* proceed_to_checkout) the candidate locators are tried strictly in list
\* order and the first whose interaction completes without error ends the
\* operation with true: nothing is tried after a success, at most one click
\* completes per operation, the direct /cart or /checkout navigation is tried
\* only after every locator failed, and the operation returns false, never
\* raising, only when that navigation failed too.
C17_LocatorOrder ==
    ex_op \in {"add", "cart", "proceed"} =>
        /\ ex_result \in {"running", "true", "false"}
        /\ \A k \in C17_LocatorAttempts : ex_log[k][1] = Selectors(ex_op)[k]
        /\ \A k \in DOMAIN ex_log : k < Len(ex_log) => ex_log[k][2] # "ok"
        /\ ex_result = "true" <=> (ex_log # <<>> /\ ex_log[Len(ex_log)][2] = "ok")
        /\ Cardinality({k \in C17_LocatorAttempts : ClickCompleted(ex_log[k][2])}) <= 1
        /\ \A k \in DOMAIN ex_log \ C17_LocatorAttempts :
              /\ ex_op # "add"
              /\ k = Len(Selectors(ex_op)) + 1
              /\ ex_log[k][1] = DirectPath(ex_op)
        /\ (ex_result = "false" /\ ex_op # "add") =>
              /\ Len(ex_log) = Len(Selectors(ex_op)) + 1
              /\ ex_log[Len(ex_log)][2] # "ok"

(***************************************************************************)
(* StoreScraper.search_generic                                             *)
(***************************************************************************)
\* The three search-URL templates, in the order of `try_urls`.
try_urls == << "/search?q=", "/search/", "/?s=" >>

\* An anchor of the parsed page: whether it has an href and a text, the price
\* parse_price finds in the text around it, and whether that text holds
\* "add to cart".
Anchors == [href : BOOLEAN, text : BOOLEAN, price : {NoPrice, 0, 1}, add : BOOLEAN]

Pages == SeqsUpTo(Anchors, MaxAnchors)

\* The body of `for a in soup.select("a")`: an anchor yields a record when it
\* has href and text and its surroundings show a truthy price or the phrase.
EmitsRecord(a) ==
    /\ a.href
    /\ a.text
    /\ \/ (a.price # NoPrice /\ a.price # 0)
       \/ a.add

RECURSIVE ParseFrom(_, _, _)
ParseFrom(page, template, k) ==
    IF k > Len(page) THEN <<>>
    ELSE (IF EmitsRecord(page[k])
          THEN <<[src |-> template, anchor |-> k, price |-> page[k].price]>>
          ELSE <<>>)
         \o ParseFrom(page, template, k + 1)

\* The records one page adds to `results`.
ParsePage(page, template) == ParseFrom(page, template, 1)

\* After the anchors of a page are processed: `if results: return results`,
\* otherwise the loop goes on to the next template (or ends after the last).
GenericAfterPage_NoEarlyReturn(results, i) ==
    IF i = Len(try_urls) THEN "returned" ELSE "running"

GenericAfterPage(results, i) ==
    IF results # <<>> THEN "returned"
    ELSE IF i = Len(try_urls) THEN "returned"    \* falls out of the loop
    ELSE "running"

\* One iteration whose goto, wait_for_timeout or content raises:
\* `except Exception: continue`.
GenericVisitRaises ==
    /\ gn_ret = "running"
    /\ \E step \in {"raise_goto", "raise_pause", "raise_content"} :
          gn_log' = Append(gn_log, <<try_urls[gn_i], step, 0>>)
    /\ gn_ret' = IF gn_i = Len(try_urls) THEN "returned" ELSE "running"
    /\ gn_i' = gn_i + 1
    /\ UNCHANGED gn_results
    /\ UNCHANGED <<rankVars, execVars, reqVars, wfVars, planVars, fillVars>>

\* One iteration whose page loads and is parsed.
GenericVisitPage ==
    /\ gn_ret = "running"
    /\ \E page \in Pages :
          LET recs == ParsePage(page, try_urls[gn_i])
              results == gn_results \o recs
          IN  /\ gn_results' = results
              /\ gn_log' = Append(gn_log,
                     <<try_urls[gn_i], IF recs = <<>> THEN "empty" ELSE "records", Len(recs)>>)
              /\ gn_ret' = GenericAfterPage(results, gn_i)
    /\ gn_i' = gn_i + 1
    /\ UNCHANGED <<rankVars, execVars, reqVars, wfVars, planVars, fillVars>>

InitGeneric ==
    /\ PlanIdle
    /\ FillIdle
    /\ RankIdle
    /\ ExecIdle
    /\ ReqIdle
    /\ WfIdle
    /\ gn_i = 1
    /\ gn_results = <<>>
    /\ gn_log = <<>>
    /\ gn_ret = "running"

NextGeneric == GenericVisitRaises \/ GenericVisitPage

SpecGeneric == InitGeneric /\ [][NextGeneric]_vars

(***************************************************************************)
(* Claims about the generic extractor.                                     *)
(***************************************************************************)
\* C9: the generic extractor visits its three templates in their fixed order;
\* a navigation failure or an empty page advances to the next template; it
\* returns the records of the first template that yields a record and visits
\* no later one; with all three exhausted it returns an empty sequence and
\* does not raise; the returned records all come from one template's page.
C9_GenericTemplates ==
    /\ gn_ret \in {"running", "returned"}
    /\ Len(gn_log) <= Len(try_urls)
    /\ \A k \in DOMAIN gn_log : gn_log[k][1] = try_urls[k]
    /\ \A k \in DOMAIN gn_log : k < Len(gn_log) => gn_log[k][2] # "records"
    /\ gn_ret = "running" =>
          /\ gn_results = <<>>
          /\ \A k \in DOMAIN gn_log : gn_log[k][2] # "records"
    /\ gn_ret = "returned" =>
          IF \E k \in DOMAIN gn_log : gn_log[k][2] = "records"
          THEN /\ Len(gn_results) = gn_log[Len(gn_log)][3]
               /\ \A r \in DOMAIN gn_results :
                     gn_results[r].src = gn_log[Len(gn_log)][1]
          ELSE /\ gn_results = <<>>
               /\ Len(gn_log) = Len(try_urls)

\* C9 witness: the first template failed to load, the second loaded a page
\* without records, and the third produced the records that were returned.
C9_Witness ==
    /\ gn_ret = "returned"
    /\ Len(gn_log) = 3
    /\ gn_log[1][2] = "raise_goto"
    /\ gn_log[2][2] = "empty"
    /\ gn_log[3][2] = "records"
    /\ Len(gn_results) = 2

(***************************************************************************)
(* BrowserController                                                       *)
(***************************************************************************)
\* A resource of the controller is "none" (never started), "open", "closed"
\* (its close call returned) or "close_failed" (its close call raised).
BcNone == [playwright |-> "none", browser |-> "none", context |-> "none"]

\* Where __aenter__ can raise: in async_playwright().start(), in
\* chromium.launch() or in browser.new_context(); "none" when it returns.
AEnterFailures == {"none", "start", "launch", "new_context"}

\* __aenter__: every call before the failing one has started its resource.
AEnter(fail) ==
    [ bc |-> [ playwright |-> IF fail = "start" THEN "none" ELSE "open",
               browser    |-> IF fail \in {"start", "launch"} THEN "none" ELSE "open",
               context    |-> IF fail = "none" THEN "open" ELSE "none" ],
      raised |-> fail # "none" ]

\* The close calls that can raise.
Closers == {"context", "browser", "playwright"}

\* __aexit__: `try: close context; close browser  finally: stop playwright`.
\* `fails` is the set of close calls that raise when made.
AExit(bc, fails) ==
    LET ctxCalled == bc.context = "open"
        ctxRaised == ctxCalled /\ "context" \in fails
        brCalled  == ~ ctxRaised /\ bc.browser = "open"
        brRaised  == brCalled /\ "browser" \in fails
        pwCalled  == bc.playwright = "open"
        pwRaised  == pwCalled /\ "playwright" \in fails
        after(called, raised, old) ==
            IF ~ called THEN old ELSE IF raised THEN "close_failed" ELSE "closed"
    IN  [ bc |-> [ context    |-> after(ctxCalled, ctxRaised, bc.context),
                   browser    |-> after(brCalled, brRaised, bc.browser),
                   playwright |-> after(pwCalled, pwRaised, bc.playwright) ],
          log |-> (IF ctxCalled THEN <<"context">> ELSE <<>>)
                  \o (IF brCalled THEN <<"browser">> ELSE <<>>)
                  \o (IF pwCalled THEN <<"playwright">> ELSE <<>>),
          raised |-> ctxRaised \/ brRaised \/ pwRaised ]

(***************************************************************************)
(* One request, await by await: `async with BrowserController() as bc:`    *)
(* around the body of plan_and_search, choose or checkout.                 *)
(***************************************************************************)
ProductUrls == {"u1", "u2"}

\* The "note" of every checkout response.
NoPaymentNote == "Agent stopped before payment."

\* First await of the body of each handler, after bc.new_page().
FirstStep(kind) ==
    CASE kind = "discover" -> "search"
      [] kind = "choose"   -> "goto"
      [] kind = "checkout" -> "goto"

\* The response the handler returns when its with-block was left normally.
Response_NoteOnlyAtCheckout(kind, flags) ==
    CASE kind = "discover" -> [status |-> "ok", note |-> ""]
      [] kind = "choose" ->
            [status |-> IF flags.added THEN "added" ELSE "needs_manual_add", note |-> ""]
      [] kind = "checkout" ->
            [status |-> IF flags.proceeded THEN "at_checkout"
                        ELSE "could_not_navigate_to_checkout",
             note |-> IF flags.proceeded THEN NoPaymentNote ELSE ""]

Response(kind, flags) ==
    CASE kind = "discover" -> [status |-> "ok", note |-> ""]
      [] kind = "choose" ->
            [status |-> IF flags.added THEN "added" ELSE "needs_manual_add", note |-> ""]
      [] kind = "checkout" ->
            [status |-> IF flags.proceeded THEN "at_checkout"
                        ELSE "could_not_navigate_to_checkout",
             note |-> NoPaymentNote]

Raised == [status |-> "exception", note |-> ""]

reqInputs == <<rq_kind, rq_url, rq_shipping, rq_before>>

\* `async with BrowserController(...) as bc`: __aenter__. When it raises the
\* with-statement never calls __aexit__ and the request ends with the error.
RqEnter ==
    /\ rq_pc = "enter"
    /\ \E fail \in AEnterFailures :
          LET r == AEnter(fail)
          IN  /\ rq_bc' = r.bc
              /\ rq_pc' = IF r.raised THEN "done" ELSE "new_page"
              /\ rq_resp' = IF r.raised THEN Raised ELSE rq_resp
    /\ UNCHANGED <<reqInputs, rq_exc, rq_log, rq_flags, rq_teardown, rq_session>>
    /\ UNCHANGED <<rankVars, execVars, genVars, wfVars, planVars, fillVars>>

\* An awaited call of the body that can raise: it is logged (when it is a page
\* interaction) and either returns, or raises and leaves the with-block.
Await(pc, entry, next) ==
    /\ rq_pc = pc
    /\ rq_log' = rq_log \o entry
    /\ \E ok \in BOOLEAN :
          /\ rq_pc' = IF ok THEN next ELSE "exit"
          /\ rq_exc' = ~ ok
    /\ UNCHANGED <<reqInputs, rq_bc, rq_flags, rq_teardown, rq_resp>>
    /\ UNCHANGED <<rankVars, execVars, genVars, wfVars, planVars, fillVars>>

\* page = await bc.new_page()
RqNewPage == Await("new_page", <<>>, FirstStep(rq_kind)) /\ UNCHANGED rq_session

\* plan_and_search: the scraper calls (each page.goto may time out).
RqSearch ==
    /\ rq_kind = "discover"
    /\ Await("search", <<<<"search", "">>>>, "exit")
    /\ UNCHANGED rq_session

\* choose: open_product_page; checkout: page.goto(chosen.url).
RqGoto ==
    /\ rq_kind \in {"choose", "checkout"}
    /\ Await("goto", <<<<"goto", rq_url>>>>,
             IF rq_kind = "choose" THEN "goto_pause" ELSE "add")
    /\ UNCHANGED rq_session

\* choose: the wait_for_timeout(1000) of open_product_page.
RqGotoPause ==
    /\ rq_kind = "choose"
    /\ Await("goto_pause", <<>>, "add")
    /\ UNCHANGED rq_session

\* attempt_add_to_cart: returns a bool, never raises.
RqAdd ==
    /\ rq_pc = "add"
    /\ \E b \in BOOLEAN : rq_flags' = [rq_flags EXCEPT !.added = b]
    /\ rq_log' = Append(rq_log, <<"add_to_cart", rq_url>>)
    /\ rq_pc' = IF rq_kind = "choose" THEN "screenshot" ELSE "cart"
    /\ UNCHANGED <<reqInputs, rq_bc, rq_exc, rq_teardown, rq_resp, rq_session>>
    /\ UNCHANGED <<rankVars, execVars, genVars, wfVars, planVars, fillVars>>

\* checkout: go_to_cart; its result is dropped.
RqCart ==
    /\ rq_pc = "cart"
    /\ rq_log' = Append(rq_log, <<"go_to_cart", rq_url>>)
    /\ rq_pc' = "proceed"
    /\ UNCHANGED <<reqInputs, rq_bc, rq_exc, rq_flags, rq_teardown, rq_resp, rq_session>>
    /\ UNCHANGED <<rankVars, execVars, genVars, wfVars, planVars, fillVars>>

\* checkout: proceed_to_checkout, then `if body.shipping:`.
RqProceed ==
    /\ rq_pc = "proceed"
    /\ \E b \in BOOLEAN : rq_flags' = [rq_flags EXCEPT !.proceeded = b]
    /\ rq_log' = Append(rq_log, <<"proceed_to_checkout", rq_url>>)
    /\ rq_pc' = IF rq_shipping = "filled" THEN "fill" ELSE "screenshot"
    /\ UNCHANGED <<reqInputs, rq_bc, rq_exc, rq_teardown, rq_resp, rq_session>>
    /\ UNCHANGED <<rankVars, execVars, genVars, wfVars, planVars, fillVars>>

\* checkout: fill_shipping returns a bool, never raises.
RqFill ==
    /\ rq_pc = "fill"
    /\ \E b \in BOOLEAN : rq_flags' = [rq_flags EXCEPT !.filled = b]
    /\ rq_log' = Append(rq_log, <<"fill_shipping", rq_url>>)
    /\ rq_pc' = "fill_pause"
    /\ UNCHANGED <<reqInputs, rq_bc, rq_exc, rq_teardown, rq_resp, rq_session>>
    /\ UNCHANGED <<rankVars, execVars, genVars, wfVars, planVars, fillVars>>

\* checkout: the wait_for_timeout(1000) after fill_shipping.
RqFillPause == Await("fill_pause", <<>>, "screenshot") /\ UNCHANGED rq_session

\* choose, lines 106-107, run when page.screenshot() has returned.
AfterScreenshot(kind, ok, session, url) ==
    IF kind = "choose" /\ ok
    THEN [session EXCEPT !.page_url = Some(url), !.chosen = Some(url)]
    ELSE session

\* choose and checkout: page.screenshot(); in choose the two assignments of
\* lines 106-107 follow it with no await in between.
RqScreenshot ==
    /\ Await("screenshot", <<<<"screenshot", rq_url>>>>,
             IF rq_kind = "choose" THEN "content" ELSE "exit")
    /\ rq_session' = AfterScreenshot(rq_kind, ~ rq_exc', rq_session, rq_url)

\* choose, line 108: session["last_page_html"] = await page.content().
RqContent ==
    /\ Await("content", <<<<"content", rq_url>>>>, "exit")
    /\ rq_session' = IF rq_exc' THEN rq_session
                      ELSE [rq_session EXCEPT !.last_page_html = Some(rq_url)]

\* Leaving the with-block, normally or by an exception: __aexit__, then the
\* handler returns its response unless an exception is propagating.
RqExit ==
    /\ rq_pc = "exit"
    /\ \E fails \in SUBSET Closers :
          LET r == AExit(rq_bc, fails)
          IN  /\ rq_bc' = r.bc
              /\ rq_teardown' = r.log
              /\ rq_resp' = IF rq_exc \/ r.raised THEN Raised
                             ELSE Response(rq_kind, rq_flags)
    /\ rq_pc' = "done"
    /\ UNCHANGED <<reqInputs, rq_exc, rq_log, rq_flags, rq_session>>
    /\ UNCHANGED <<rankVars, execVars, genVars, wfVars, planVars, fillVars>>

\* The session fields a request can find: none for a discover (it creates
\* the session), none or those of an earlier choose for a choose, those of the
\* choose of this product for a checkout.
SessionsBefore(kind, url) ==
    CASE kind = "discover" -> {NoFields}
      [] kind = "choose" ->
            {NoFields,
             [page_url |-> Some("u0"), chosen |-> Some("u0"),
              last_page_html |-> Some("u0")]}
      [] kind = "checkout" ->
            {[page_url |-> Some(url), chosen |-> Some(url),
              last_page_html |-> Some(url)]}

InitRequest ==
    /\ PlanIdle
    /\ FillIdle
    /\ RankIdle
    /\ ExecIdle
    /\ GenIdle
    /\ WfIdle
    /\ rq_kind \in {"discover", "choose", "checkout"}
    /\ rq_url \in (IF rq_kind = "discover" THEN {""} ELSE ProductUrls)
    /\ rq_shipping \in (IF rq_kind = "checkout" THEN {"none", "empty", "filled"}
                         ELSE {"none"})
    /\ rq_pc = "enter"
    /\ rq_bc = BcNone
    /\ rq_exc = FALSE
    /\ rq_log = <<>>
    /\ rq_flags = [added |-> FALSE, proceeded |-> FALSE, filled |-> FALSE]
    /\ rq_teardown = <<>>
    /\ rq_resp = [status |-> "running", note |-> ""]
    /\ rq_before \in SessionsBefore(rq_kind, rq_url)
    /\ rq_session = rq_before

NextRequest ==
    \/ RqEnter
    \/ RqNewPage
    \/ RqSearch
    \/ RqGoto
    \/ RqGotoPause
    \/ RqAdd
    \/ RqCart
    \/ RqProceed
    \/ RqFill
    \/ RqFillPause
    \/ RqScreenshot
    \/ RqContent
    \/ RqExit

SpecRequest == InitRequest /\ [][NextRequest]_vars

(***************************************************************************)
(* Claims about one request and its BrowserController.                     *)
(***************************************************************************)
\* C7: every BrowserSession is released on every exit path of the request
\* that created it: when the request has returned or raised, the context, the
\* browser engine and the automation process it started are closed, also when
\* the body raised and when acquisition failed part-way.
C7_ReleasedOnEveryExit ==
    rq_pc = "done" =>
        /\ rq_bc.context # "open"
        /\ rq_bc.browser # "open"
        /\ rq_bc.playwright # "open"

\* C8: teardown closes the context, then the engine, then releases the
\* process, each step guarded on its own: a close of the context that raises
\* does not skip the engine or the process, and a close of the engine that
\* raises does not skip the process.
C8_TeardownIndependentlyGuarded ==
    (rq_pc = "done" /\ rq_teardown # <<>>) =>
        /\ \A i, j \in DOMAIN rq_teardown :
              (rq_teardown[i] = "browser" /\ rq_teardown[j] = "context") => j < i
        /\ \A i, j \in DOMAIN rq_teardown :
              (rq_teardown[i] = "playwright" /\ rq_teardown[j] # "playwright") => j < i
        /\ rq_bc.context = "close_failed" =>
              /\ rq_bc.browser \in {"closed", "close_failed"}
              /\ rq_bc.playwright \in {"closed", "close_failed"}
        /\ rq_bc.browser = "close_failed" =>
              rq_bc.playwright \in {"closed", "close_failed"}

\* The page interactions a checkout may make, in order; the shipping form is
\* filled only when shipping fields were supplied.
C10_Allowed(shipping) ==
    <<"goto", "add_to_cart", "go_to_cart", "proceed_to_checkout">>
    \o (IF shipping = "filled" THEN <<"fill_shipping">> ELSE <<>>)
    \o <<"screenshot">>

\* C10: a checkout request stops before any payment action: its browser
\* actions are, in order, open the chosen product's URL, attempt add-to-cart,
\* go to cart, proceed to checkout, the optional shipping fill and a
\* screenshot, and every response it returns (at_checkout or
\* could_not_navigate_to_checkout) states that no payment was submitted.
C10_StopsBeforePayment ==
    rq_kind = "checkout" =>
        /\ Len(rq_log) <= Len(C10_Allowed(rq_shipping))
        /\ \A k \in DOMAIN rq_log :
              /\ rq_log[k][1] = C10_Allowed(rq_shipping)[k]
              /\ rq_log[k][2] = rq_url
        /\ rq_pc = "done" =>
              \/ rq_resp.status = "exception"
              \/ /\ rq_resp.status \in {"at_checkout", "could_not_navigate_to_checkout"}
                 /\ rq_resp.note = NoPaymentNote
                 /\ Len(rq_log) = Len(C10_Allowed(rq_shipping))

\* C10 witness: a checkout with shipping fields that could not reach the
\* checkout page and returned after all six interactions.
C10_Witness ==
    /\ rq_kind = "checkout"
    /\ rq_pc = "done"
    /\ rq_shipping = "filled"
    /\ rq_resp.status = "could_not_navigate_to_checkout"
    /\ Len(rq_log) = 6

\* The statuses a choose or checkout response can carry.
C11_Statuses ==
    {"added", "needs_manual_add", "at_checkout", "could_not_navigate_to_checkout"}

\* C11: every terminal response of a choose or checkout that passed its entry
\* checks carries an explicit status and is never a bare exception, whatever
\* the page does (navigation timeout, screenshot or page-content failure);
\* stated for the requests whose browser started and closed without error.
C11_StatusBearingResponse ==
    ( /\ rq_kind \in {"choose", "checkout"}
      /\ rq_pc = "done"
      /\ rq_bc = [playwright |-> "closed", browser |-> "closed", context |-> "closed"] )
    => rq_resp.status \in C11_Statuses

\* The request made this page interaction.
C19_Did(what) == \E k \in DOMAIN rq_log : rq_log[k][1] = what

\* C19: a choose whose navigation to the product page fails ends with the
\* failure and leaves the session as it was before the call (chosen and page
\* url keep their values), whereas a choose that reached the add-to-cart
\* attempt has recorded the product as chosen, whether add-to-cart returned
\* true (status added) or false (status needs_manual_add).
C19_OpenFailureLeavesSession ==
    (rq_kind = "choose" /\ rq_pc = "done") =>
        /\ (C19_Did("goto") /\ ~ C19_Did("add_to_cart")) =>
              /\ rq_resp.status = "exception"
              /\ rq_session = rq_before
        /\ C19_Did("add_to_cart") =>
              /\ rq_session.chosen = Some(rq_url)
              /\ rq_session.page_url = Some(rq_url)

(***************************************************************************)
(* app.py: the three handlers over the session table.                      *)
(***************************************************************************)
\* Products the stores can show.  PC shares its url with PA.
PA == [title |-> <<"A", "b">>, price |-> 2, url |-> "u1"]

PB == [title |-> <<"b">>, price |-> NoPrice, url |-> "u2"]

PC == [title |-> <<"b">>, price |-> 1, url |-> "u1"]

\* The `products` list the scrapers can leave plan_and_search with.
ScrapeLists == {<<>>, <<PA>>, <<PA, PB>>, <<PA, PB, PC>>}

\* The plans LLMPlanner.plan can return.
Plans ==
    { [query |-> "q", store |-> "none", max_price |-> NoPrice, must_have |-> <<>>],
      [query |-> "q", store |-> "none", max_price |-> 1, must_have |-> <<>>] }

\* A request names a session by a token: one handed out, or one never issued.
UnknownSid == 0

SidArgs == DOMAIN SESSIONS \cup {UnknownSid}

\* ChooseRequest.product_url and product_index as sent by a caller.
SelUrls == {None, Some(""), Some("u1"), Some("u2"), Some("ux")}

SelIdxs == {None, Some(-1), Some(0), Some(1), Some(3)}

\* Position (from 1) of the first product with this url, 0 when there is none.
FirstWithUrl(products, url) ==
    IF \E i \in DOMAIN products : products[i].url = url
    THEN CHOOSE i \in DOMAIN products :
            /\ products[i].url = url
            /\ \A j \in DOMAIN products : products[j].url = url => i <= j
    ELSE 0

\* choose, lines 85-93: position (from 1) of `chosen` in the session's
\* products, 0 when `chosen` stays None.
ChooseSelect_NoLowerBound(products, url, idx) ==
    IF url # None /\ url[1] # ""
    THEN FirstWithUrl(products, url[1])
    ELSE IF idx # None
         THEN IF idx[1] >= 0 /\ idx[1] < Len(products) THEN idx[1] + 1
              ELSE IF idx[1] < 0 /\ Len(products) + idx[1] >= 0
                   THEN Len(products) + idx[1] + 1
                   ELSE 0
         ELSE 0

ChooseSelect(products, url, idx) ==
    IF url # None /\ url[1] # ""                   \* `if body.product_url:`
    THEN FirstWithUrl(products, url[1])
    ELSE IF idx # None                             \* `elif ... is not None:`
         THEN IF 0 <= idx[1] /\ idx[1] < Len(products) THEN idx[1] + 1 ELSE 0
         ELSE 0

\* choose, lines 81-95: the error raised before any browser is opened, or
\* "accepted".
ChooseEntry(sessions, sid, url, idx) ==
    IF sid \notin DOMAIN sessions THEN "SessionNotFound"
    ELSE IF ChooseSelect(sessions[sid].products, url, idx) = 0 THEN "ProductNotFound"
    ELSE "accepted"

\* checkout, lines 114-119.
CheckoutEntry(sessions, sid) ==
    IF sid \notin DOMAIN sessions THEN "SessionNotFound"
    ELSE IF sessions[sid].chosen = None THEN "NoProductChosen"
    ELSE "accepted"

\* `sid = base64.urlsafe_b64encode(os.urandom(9))`: a token not handed out yet.
FreshSid == Cardinality(DOMAIN SESSIONS) + 1

\* `d[k] = v` on a dict.
Put(d, k, v) == [x \in DOMAIN d \cup {k} |-> IF x = k THEN v ELSE d[x]]

\* plan_and_search returns the first TopN ranked products.
TopN == 10

\* plan_and_search, lines 74-76: the product summaries of the response, each
\* with its position in `ranked` as "index".
Summaries_OneBased(ranked) ==
    [i \in 1..(IF Len(ranked) < TopN THEN Len(ranked) ELSE TopN) |->
        [index |-> i, title |-> ranked[i].title, price |-> ranked[i].price,
         url |-> ranked[i].url]]

Summaries(ranked) ==
    [i \in 1..(IF Len(ranked) < TopN THEN Len(ranked) ELSE TopN) |->
        [index |-> i - 1, title |-> ranked[i].title, price |-> ranked[i].price,
         url |-> ranked[i].url]]

\* No request has assigned page_url, chosen or last_page_html yet.
NoWriter == [page_url |-> 0, chosen |-> 0, last_page_html |-> 0]

\* choose, lines 106-107, on one session dict.
ChooseStored_UrlLater(session, chosen) == [session EXCEPT !.chosen = Some(chosen)]

ChooseStored(session, chosen) ==
    [session EXCEPT !.page_url = Some(chosen.url), !.chosen = Some(chosen)]

\* choose, lines 83 and 106-107: `session = SESSIONS[session_id]` is the dict
\* of this session id, and the two assignments go to it.
StoreChosen_SharedDict(sessions, sid, chosen) ==
    [s \in DOMAIN sessions |-> ChooseStored(sessions[s], chosen)]

StoreChosen(sessions, sid, chosen) ==
    [sessions EXCEPT ![sid] = ChooseStored(sessions[sid], chosen)]

\* choose, line 108, on one session dict.
ContentStored(session, html) == [session EXCEPT !.last_page_html = Some(html)]

\* plan_and_search.  `fail` tells where the request raises: "before_store"
\* (the planner, __aenter__, new_page or a scraper's goto), "after_store"
\* (__aexit__, after line 72 stored the session) or "none".
Discover ==
    /\ nreq < MaxRequests
    /\ nreq' = nreq + 1
    /\ \E plan \in Plans, scraped \in ScrapeLists,
          fail \in {"none", "before_store", "after_store"} :
          LET ranked == Rank(scraped,
                             [max_price |-> plan.max_price, must_have |-> plan.must_have],
                             TRUE)
              sid == FreshSid
              session == [plan |-> plan, products |-> ranked, page_url |-> None,
                          last_page_html |-> None, chosen |-> None]
          IN  /\ SESSIONS' = IF fail = "before_store" THEN SESSIONS
                              ELSE Put(SESSIONS, sid, session)
              /\ listing' = IF fail = "before_store" THEN listing
                             ELSE Put(listing, sid, Summaries(ranked))
              /\ alone' = IF fail = "before_store" THEN alone
                           ELSE Put(alone, sid, session)
              /\ writer' = IF fail = "before_store" THEN writer
                            ELSE Put(writer, sid, NoWriter)
              /\ ev' = [NoEvent EXCEPT
                          !.rid = nreq + 1, !.kind = "discover",
                          !.sid = IF fail = "none" THEN sid ELSE UnknownSid,
                          !.status = IF fail = "none" THEN "ok" ELSE "exception",
                          !.browser = TRUE]
    /\ UNCHANGED <<inflight, choseDone, returned>>
    /\ UNCHANGED <<rankVars, execVars, genVars, reqVars, planVars, fillVars>>

\* choose, up to its first await: the entry checks of lines 81-95.
ChooseArrive ==
    /\ nreq < MaxRequests
    /\ nreq' = nreq + 1
    /\ \E sid \in SidArgs, url \in SelUrls, idx \in SelIdxs :
          LET entry == ChooseEntry(SESSIONS, sid, url, idx)
          IN  /\ ev' = [NoEvent EXCEPT
                          !.rid = nreq + 1, !.kind = "choose", !.sid = sid,
                          !.url = url, !.idx = idx, !.status = entry]
              /\ inflight' =
                    IF entry = "accepted"
                    THEN inflight \cup
                         {[rid |-> nreq + 1, sid |-> sid, pc |-> "browse", added |-> FALSE,
                           pos |-> ChooseSelect(SESSIONS[sid].products, url, idx)]}
                    ELSE inflight
    /\ UNCHANGED <<SESSIONS, choseDone, listing, alone, writer, returned>>
    /\ UNCHANGED <<rankVars, execVars, genVars, reqVars, planVars, fillVars>>

\* choose, lines 97-107: __aenter__, new_page, open_product_page,
\* attempt_add_to_cart and screenshot; when none of them raises, page_url and
\* chosen are stored and the request waits for page.content().
ChooseBrowse ==
    /\ \E r \in inflight :
          /\ r.pc = "browse"
          /\ \E out \in {"raise", "added", "not_added"} :
                LET chosen == SESSIONS[r.sid].products[r.pos]
                IN  IF out = "raise"
                    THEN /\ inflight' = inflight \ {r}
                         /\ UNCHANGED <<SESSIONS, alone, writer>>
                         /\ ev' = [NoEvent EXCEPT
                                     !.rid = r.rid, !.kind = "choose", !.sid = r.sid,
                                     !.status = "exception", !.browser = TRUE]
                    ELSE /\ inflight' = (inflight \ {r}) \cup
                               {[r EXCEPT !.pc = "content", !.added = (out = "added")]}
                         /\ SESSIONS' = StoreChosen(SESSIONS, r.sid, chosen)
                         /\ alone' = [alone EXCEPT ![r.sid] =
                                         ChooseStored(@, alone[r.sid].products[r.pos])]
                         /\ writer' = [writer EXCEPT ![r.sid].page_url = r.rid,
                                                     ![r.sid].chosen = r.rid]
                         /\ ev' = [NoEvent EXCEPT
                                     !.rid = r.rid, !.kind = "choose", !.sid = r.sid,
                                     !.status = "stored", !.browser = TRUE]
    /\ UNCHANGED <<nreq, choseDone, listing, returned>>
    /\ UNCHANGED <<rankVars, execVars, genVars, reqVars, planVars, fillVars>>

\* choose, lines 108-110: page.content() returns and is stored, __aexit__
\* runs and the response is returned; or page.content() raises, or __aexit__
\* raises after the page content was stored.
ChooseFinish ==
    /\ \E r \in inflight :
          /\ r.pc = "content"
          /\ \E out \in {"content_raises", "aexit_raises", "ok"} :
                LET chosen == SESSIONS[r.sid].products[r.pos]
                IN  /\ inflight' = inflight \ {r}
                    /\ SESSIONS' = IF out = "content_raises" THEN SESSIONS
                                    ELSE [SESSIONS EXCEPT
                                            ![r.sid] = ContentStored(@, chosen.url)]
                    /\ alone' = IF out = "content_raises" THEN alone
                                 ELSE [alone EXCEPT ![r.sid] =
                                         ContentStored(@, alone[r.sid].products[r.pos].url)]
                    /\ writer' = IF out = "content_raises" THEN writer
                                  ELSE [writer EXCEPT ![r.sid].last_page_html = r.rid]
                    /\ choseDone' = IF out = "ok" THEN choseDone \cup {r.sid}
                                     ELSE choseDone
                    /\ returned' = IF out = "ok" THEN returned \cup {r.rid}
                                    ELSE returned
                    /\ ev' = [NoEvent EXCEPT
                                !.rid = r.rid, !.kind = "choose", !.sid = r.sid,
                                !.browser = TRUE,
                                !.status = IF out # "ok" THEN "exception"
                                           ELSE IF r.added THEN "added"
                                           ELSE "needs_manual_add"]
    /\ UNCHANGED <<nreq, listing>>
    /\ UNCHANGED <<rankVars, execVars, genVars, reqVars, planVars, fillVars>>

\* checkout, lines 121-147: what the handler leaves in the session table when
\* it ends with `out`; it reads `chosen` and assigns nothing to the session.
CheckoutStore_OnlyWhenReached(sessions, sid, out) ==
    IF out = "at_checkout"
    THEN [sessions EXCEPT ![sid].page_url = Some("checkout")]
    ELSE sessions

CheckoutStore_ForgetOnFailure(sessions, sid, out) ==
    IF out = "could_not_navigate_to_checkout"
    THEN [sessions EXCEPT ![sid].chosen = None]
    ELSE sessions

CheckoutStore(sessions, sid, out) == sessions

\* checkout, lines 114-119, up to its first await: the entry checks, and the
\* read of the session's chosen product into the local `chosen`.
Checkout ==
    /\ nreq < MaxRequests
    /\ nreq' = nreq + 1
    /\ \E sid \in SidArgs :
          LET entry == CheckoutEntry(SESSIONS, sid)
          IN  /\ ev' = [NoEvent EXCEPT
                          !.rid = nreq + 1, !.kind = "checkout", !.sid = sid,
                          !.status = entry]
              /\ inflight' =
                    IF entry = "accepted"
                    THEN inflight \cup
                         {[rid |-> nreq + 1, sid |-> sid, pc |-> "checkout",
                           chosen |-> SESSIONS[sid].chosen]}
                    ELSE inflight
    /\ UNCHANGED <<SESSIONS, choseDone, listing, alone, writer, returned>>
    /\ UNCHANGED <<rankVars, execVars, genVars, reqVars, planVars, fillVars>>

\* checkout, line 125: `page.goto(chosen.url)` goes to the product the handler
\* read at line 117.
CheckoutTarget_TopRanked(session, chosen) == Some(session.products[1])

CheckoutTarget(session, chosen) == chosen

\* checkout, lines 121-147: the browser work, after the awaits of __aenter__
\* and new_page.  `reached` tells whether the request got to line 125 before
\* it raised.
CheckoutBrowse ==
    /\ \E r \in inflight :
          /\ r.pc = "checkout"
          /\ \E shipping \in {"none", "empty", "filled"},
                out \in {"exception", "at_checkout", "could_not_navigate_to_checkout"},
                reached \in BOOLEAN :
                /\ out # "exception" => reached
                /\ inflight' = inflight \ {r}
                /\ ev' = [NoEvent EXCEPT
                            !.rid = r.rid, !.kind = "checkout", !.sid = r.sid,
                            !.shipping = shipping, !.status = out, !.browser = TRUE,
                            !.nav = IF reached
                                    THEN CheckoutTarget(SESSIONS[r.sid], r.chosen)
                                    ELSE None]
                /\ SESSIONS' = CheckoutStore(SESSIONS, r.sid, out)
    /\ UNCHANGED <<nreq, choseDone, listing, alone, writer, returned>>
    /\ UNCHANGED <<rankVars, execVars, genVars, reqVars, planVars, fillVars>>

Init ==
    /\ PlanIdle
    /\ FillIdle
    /\ RankIdle
    /\ ExecIdle
    /\ GenIdle
    /\ ReqIdle
    /\ WfIdle

Next ==
    \/ Discover
    \/ ChooseArrive
    \/ ChooseBrowse
    \/ ChooseFinish
    \/ Checkout
    \/ CheckoutBrowse

Spec == Init /\ [][Next]_vars

\* The session a plan_and_search that raised nowhere leaves in the table
\* (line 72).
Discovered(plan, scraped) ==
    [plan |-> plan,
     products |-> Rank(scraped,
                       [max_price |-> plan.max_price, must_have |-> plan.must_have],
                       TRUE),
     page_url |-> None, last_page_html |-> None, chosen |-> None]

\* The handlers from a state two plan_and_search requests leave behind: two
\* sessions are in the table, the first ranked from a search that found two
\* products and the second from one that found none, no request is under way,
\* and nreq counts the requests made from here on.
InitSessions ==
    /\ PlanIdle
    /\ FillIdle
    /\ RankIdle
    /\ ExecIdle
    /\ GenIdle
    /\ ReqIdle
    /\ \E plan \in Plans, scraped \in {l \in ScrapeLists : Len(l) = 2} :
          LET first == Discovered(plan, scraped)
              second == Discovered(plan, << >>)
          IN  /\ SESSIONS = Put(Put(<< >>, 1, first), 2, second)
              /\ listing = Put(Put(<< >>, 1, Summaries(first.products)),
                               2, Summaries(second.products))
              /\ alone = SESSIONS
    /\ writer = Put(Put(<< >>, 1, NoWriter), 2, NoWriter)
    /\ inflight = {}
    /\ nreq = 0
    /\ choseDone = {}
    /\ returned = {}
    /\ ev = NoEvent

\* choose and checkout requests only: the table keeps its two sessions.
NextSessions ==
    \/ ChooseArrive
    \/ ChooseBrowse
    \/ ChooseFinish
    \/ Checkout
    \/ CheckoutBrowse

SpecSessions == InitSessions /\ [][NextSessions]_vars

(***************************************************************************)
(* Claims about the handlers and the session table.                        *)
(***************************************************************************)
\* C1: on a session created by discover on which no choose has ever
\* completed, a checkout call fails with InvalidState, opens no
\* BrowserSession and leaves the session table unchanged.
C1_CheckoutBeforeChoose ==
    [][ ( /\ nreq' # nreq
          /\ ev'.kind = "checkout"
          /\ ev'.sid \in DOMAIN SESSIONS
          /\ ev'.sid \notin choseDone )
        => ( /\ ev'.status = "NoProductChosen"
             /\ ~ ev'.browser
             /\ SESSIONS' = SESSIONS ) ]_vars

\* The selector designates no product of the list: its URL (when given) is
\* the url of no product and its index (when given) is below 0 or at or above
\* the length of the list.
C2_MatchesNothing(products, url, idx) ==
    /\ url = None \/ \A i \in DOMAIN products : products[i].url # url[1]
    /\ idx = None \/ idx[1] < 0 \/ idx[1] >= Len(products)

\* C2: choose fails with NotFound whenever the session id is not in the
\* session table or the selector matches nothing in the session's product
\* list; no BrowserSession is opened then and the session table is unchanged.
C2_ChooseNotFound ==
    [][ ( /\ nreq' # nreq
          /\ ev'.kind = "choose"
          /\ \/ ev'.sid \notin DOMAIN SESSIONS
             \/ C2_MatchesNothing(SESSIONS[ev'.sid].products, ev'.url, ev'.idx) )
        => ( /\ ev'.status \in {"SessionNotFound", "ProductNotFound"}
             /\ ~ ev'.browser
             /\ inflight' = inflight
             /\ SESSIONS' = SESSIONS ) ]_vars

\* C2 witness: a choose on a session of three products, by an index equal to
\* the length of the list, was rejected.
C2_Witness ==
    /\ ev.kind = "choose"
    /\ ev.sid \in DOMAIN SESSIONS
    /\ Len(SESSIONS[ev.sid].products) = 3
    /\ ev.url = None
    /\ ev.idx = Some(3)
    /\ ev.status = "ProductNotFound"
    /\ ~ ev.browser

\* C2 witness for the URL: a choose by a URL that no product of a non-empty
\* list has was rejected.
C2_WitnessUrl ==
    /\ ev.kind = "choose"
    /\ ev.sid \in DOMAIN SESSIONS
    /\ SESSIONS[ev.sid].products # <<>>
    /\ ev.url = Some("ux")
    /\ ev.status = "ProductNotFound"

\* C13: a checkout on a session with a chosen product leaves the session in
\* the same state whether proceed_to_checkout returned true or false: the
\* session table after the call is the table before it, the session still has
\* its chosen product (it is at checkout, a state from which checkout stays
\* valid), and the navigation outcome is told only by the response status.
C13_CheckoutStateRegardless ==
    [][ /\ ( /\ nreq' # nreq
             /\ ev'.kind = "checkout"
             /\ ev'.sid \in DOMAIN SESSIONS
             /\ SESSIONS[ev'.sid].chosen # None )
           => ( ev'.status = "accepted" /\ SESSIONS' = SESSIONS )
        /\ \A r \in inflight :
              ( r.pc = "checkout" /\ r \notin inflight' )
              => ( /\ ev'.browser
                   /\ ev'.rid = r.rid
                   /\ ev'.status \in {"at_checkout", "could_not_navigate_to_checkout",
                                      "exception"}
                   /\ SESSIONS' = SESSIONS
                   /\ CheckoutEntry(SESSIONS', r.sid) = "accepted" ) ]_vars

\* C13 witness: a checkout on a session with a chosen product returned
\* could_not_navigate_to_checkout.
C13_Witness ==
    /\ ev.kind = "checkout"
    /\ ev.sid \in DOMAIN SESSIONS
    /\ SESSIONS[ev.sid].chosen # None
    /\ ev.status = "could_not_navigate_to_checkout"

\* C14: session state never reverses: a session that exists keeps existing,
\* a session that has a chosen product keeps having one after every further
\* step (choose calls that succeed or fail, checkout and discover calls,
\* steps of other sessions), and a checkout on it is never rejected.
C14_NeverReverses ==
    [][ /\ \A s \in DOMAIN SESSIONS :
              /\ s \in DOMAIN SESSIONS'
              /\ SESSIONS[s].chosen # None => SESSIONS'[s].chosen # None
        /\ ( /\ nreq' # nreq
             /\ ev'.kind = "checkout"
             /\ ev'.sid \in DOMAIN SESSIONS
             /\ SESSIONS[ev'.sid].chosen # None )
           => ev'.status \notin {"SessionNotFound", "NoProductChosen"} ]_vars

\* C14 witness: the third request is a choose that was rejected on a session
\* that had a chosen product, and the session still has its chosen product.
C14_Witness ==
    /\ nreq = 3
    /\ ev.rid = 3
    /\ ev.kind = "choose"
    /\ ev.status = "ProductNotFound"
    /\ ev.sid \in DOMAIN SESSIONS
    /\ SESSIONS[ev.sid].chosen # None

C16_IndexIdentifiesProduct ==
    \A s \in DOMAIN listing :
        /\ s \in DOMAIN SESSIONS
        /\ \A k \in DOMAIN listing[s] :
              LET e == listing[s][k]
                  pos == ChooseSelect(SESSIONS[s].products, None, Some(e.index))
              IN  /\ pos # 0
                  /\ SESSIONS[s].products[pos].title = e.title
                  /\ SESSIONS[s].products[pos].price = e.price
                  /\ SESSIONS[s].products[pos].url = e.url

\* C16 witness: after an earlier choose stored a product in the session, a
\* choose by index 1 was accepted and selected the product listed second.
C16_Witness ==
    /\ ev.kind = "choose"
    /\ ev.status = "accepted"
    /\ ev.url = None
    /\ ev.idx = Some(1)
    /\ SESSIONS[ev.sid].chosen # None
    /\ Len(listing[ev.sid]) = 3
    /\ \E r \in inflight :
          /\ r.rid = ev.rid
          /\ SESSIONS[ev.sid].products[r.pos].url = listing[ev.sid][2].url
          /\ SESSIONS[ev.sid].products[r.pos].title = listing[ev.sid][2].title
          /\ listing[ev.sid][2].index = 1

\* C20: when a choose returns its response and no other choose is under way
\* on its session, the chosen product, the page url and the last page content
\* stored in the session (each written by a choose that returned a response)
\* were all written by the same choose request.
C20_ChooseFieldsConsistent ==
    [][ ( /\ ev'.kind = "choose"
          /\ ev'.status \in {"added", "needs_manual_add"}
          /\ \A r \in inflight' : r.sid # ev'.sid
          /\ writer'[ev'.sid].chosen \in returned'
          /\ writer'[ev'.sid].last_page_html \in returned' )
        => ( /\ writer'[ev'.sid].chosen = writer'[ev'.sid].page_url
             /\ writer'[ev'.sid].chosen = writer'[ev'.sid].last_page_html ) ]_vars

\* C20 as amended: in every state, under every interleaving of choose
\* requests on one session, the stored chosen product and page url were
\* written by the same choose request and belong together; the last page
\* content is that of some choose on the session, not always the same one.
C20_ChosenWithItsUrl ==
    \A s \in DOMAIN SESSIONS :
        /\ writer[s].chosen = writer[s].page_url
        /\ writer[s].chosen = 0 <=> SESSIONS[s].chosen = None
        /\ SESSIONS[s].chosen = None <=> SESSIONS[s].page_url = None
        /\ SESSIONS[s].chosen # None =>
              SESSIONS[s].page_url = Some(SESSIONS[s].chosen[1].url)
        /\ writer[s].last_page_html # 0 => writer[s].chosen # 0

\* C20 witness: two chooses on one session overlapped and both have returned;
\* the chosen product and page url are those of the third request, the last
\* page content is that of the second, for another product.
C20_Witness ==
    /\ inflight = {}
    /\ returned = {2, 3}
    /\ ev.kind = "choose"
    /\ ev.status \in {"added", "needs_manual_add"}
    /\ writer[ev.sid].chosen = 3
    /\ writer[ev.sid].page_url = 3
    /\ writer[ev.sid].last_page_html = 2
    /\ SESSIONS[ev.sid].last_page_html # SESSIONS[ev.sid].page_url

\* C21, as stated: in every reachable state the chosen product of every
\* session (when set) is an element of that session's product list, and the
\* product a checkout has navigated to is an element of that list and is the
\* session's chosen product.
C21_NavigatesToChosen ==
    /\ \A s \in DOMAIN SESSIONS :
          SESSIONS[s].chosen # None
          => SESSIONS[s].chosen[1] \in Range(SESSIONS[s].products)
    /\ (ev.kind = "checkout" /\ ev.nav # None)
       => /\ ev.nav[1] \in Range(SESSIONS[ev.sid].products)
          /\ ev.nav = SESSIONS[ev.sid].chosen

\* Every chosen product, every product a checkout under way has read, and
\* every product a checkout has navigated to is an element of the product
\* list of its own session.
C21_FromOwnList ==
    /\ \A s \in DOMAIN SESSIONS :
          SESSIONS[s].chosen # None
          => SESSIONS[s].chosen[1] \in Range(SESSIONS[s].products)
    /\ \A r \in inflight :
          r.pc = "checkout"
          => /\ r.chosen # None
             /\ r.chosen[1] \in Range(SESSIONS[r.sid].products)
    /\ (ev.kind = "checkout" /\ ev.nav # None)
       => ev.nav[1] \in Range(SESSIONS[ev.sid].products)

\* A checkout that passes its entry check reads the chosen product the
\* session has at that moment, and the product it navigates to is the one it
\* read.
C21_ReadThenNavigate ==
    /\ \A r \in inflight' \ inflight :
          r.pc = "checkout" => r.chosen = SESSIONS[r.sid].chosen
    /\ \A r \in inflight \ inflight' :
          (r.pc = "checkout" /\ ev'.nav # None) => ev'.nav = r.chosen

\* C21, amended: the chosen product of every session (when set) is an
\* element of that session's product list, and the product a checkout
\* navigates to is the product that was the session's chosen product when
\* the checkout passed its entry check: an element of that session's list,
\* never a product of another session or one absent from the list.
C21_NavigatesToChosenAtEntry == [] C21_FromOwnList /\ [][C21_ReadThenNavigate]_vars

\* C21 witness: a checkout navigated to the product it read, an element of
\* its session's list, after a choose on the same session stored another
\* product.
C21_Witness ==
    /\ ev.kind = "checkout"
    /\ ev.status = "at_checkout"
    /\ ev.nav # None
    /\ ev.nav[1] \in Range(SESSIONS[ev.sid].products)
    /\ SESSIONS[ev.sid].chosen # None
    /\ ev.nav # SESSIONS[ev.sid].chosen


(***************************************************************************)
(* LLMPlanner.plan and the planning part of plan_and_search.               *)
(***************************************************************************)
\* What the heuristic of plan() reads in user_request: the number after
\* "under" (NoPrice when the pattern does not match) and the store names the
\* lower-cased request contains.
PlanRequests ==
    { [under |-> NoPrice, stores |-> {}],
      [under |-> 1, stores |-> {"amazon"}],
      [under |-> NoPrice, stores |-> {"amazon", "walmart"}] }

\* A JSON value for the "max_price" member: absent, null, a number, a string.
MaxPriceValues ==
    { [t |-> "absent", n |-> NoPrice], [t |-> "null", n |-> NoPrice],
      [t |-> "num", n |-> 1], [t |-> "str", n |-> 1] }

\* A JSON value for the "must_have" member: absent, null, a list of strings,
\* a string (v: its characters), a number, a list of numbers.
MustHaveValues ==
    { [t |-> "absent", v |-> <<>>], [t |-> "null", v |-> <<>>],
      [t |-> "list", v |-> <<>>], [t |-> "list", v |-> << <<"a">> >>],
      [t |-> "str", v |-> <<"a", "b">>], [t |-> "num", v |-> <<1>>],
      [t |-> "intlist", v |-> <<1>>] }

\* The text of the oracle's reply (resp.text.strip()): a JSON value, or text
\* that is not JSON, alone ("none"), inside prose or a code fence ("prose"),
\* or as the only element of a JSON array ("array").
OracleTexts ==
    { [wrap |-> w, json |-> j] :
        w \in {"none", "prose", "array"}, j \in {"not_json", "null", "number", "string"} }
    \cup
    { [wrap |-> w, json |-> "object", max_price |-> mp, must_have |-> mh] :
        w \in {"none", "prose", "array"}, mp \in MaxPriceValues, mh \in MustHaveValues }

\* `re.search(r"\{.*\}", text, re.DOTALL)` then json.loads: "dict" when the
\* text holds an object (the pattern isolates it from what surrounds it),
\* "other" when the text is JSON of another kind, "fail" when json.loads
\* raises.
JsonLoads(text) ==
    IF text.json = "object" THEN "dict"
    ELSE IF text.json = "not_json" THEN "fail"
    ELSE IF text.wrap = "prose" THEN "fail"
    ELSE "other"

\* The `except Exception:` branch of plan(): the heuristic plan.
Heuristic(request) ==
    [ t |-> "dict",
      store |-> IF "walmart" \in request.stores THEN "walmart"
                ELSE IF "ebay" \in request.stores THEN "ebay"
                ELSE IF "amazon" \in request.stores THEN "amazon"
                ELSE "none",
      max_price |-> IF request.under = NoPrice THEN [t |-> "null", n |-> NoPrice]
                    ELSE [t |-> "num", n |-> request.under],
      must_have |-> [t |-> "list", v |-> <<>>] ]

\* LLMPlanner.plan: whatever json.loads returns, or the heuristic plan.
Plan(text, request) ==
    CASE JsonLoads(text) = "dict" ->
            [t |-> "dict", store |-> "none",
             max_price |-> text.max_price, must_have |-> text.must_have]
      [] JsonLoads(text) = "other" -> [t |-> "other"]
      [] JsonLoads(text) = "fail" -> Heuristic(request)

\* plan_and_search, lines 42-46: plan.get(...) on the value plan() returned;
\* `get` exists on a dict only.
Unpack(plan) ==
    IF plan.t # "dict" THEN [t |-> "raised"]
    ELSE [ t |-> "dict",
           max_price |-> IF plan.max_price.t = "absent"
                         THEN [t |-> "null", n |-> NoPrice] ELSE plan.max_price,
           must_have |-> IF plan.must_have.t = "absent"
                         THEN [t |-> "list", v |-> <<>>] ELSE plan.must_have ]

\* Python truthiness of the must_have value (`if must_have:`).
Truthy(mh) ==
    CASE mh.t = "null" -> FALSE
      [] mh.t = "num" -> mh.v[1] # 0
      [] OTHER -> mh.v # <<>>

\* rank(), lines 176-183, on one product: "raise" when `p.price > max_price`
\* compares a float with a string, or when `k.lower() in title for k in
\* must_have` iterates a number or calls lower() on a number.
RankProductRaises(p, c) ==
    \/ c.max_price.t = "str" /\ p.price # NoPrice
    \/ /\ ~ (c.max_price.t = "num" /\ p.price # NoPrice /\ p.price > c.max_price.n)
       /\ Truthy(c.must_have)
       /\ c.must_have.t \in {"num", "intlist"}

RankRaises(products, c) == \E i \in DOMAIN products : RankProductRaises(products[i], c)

\* The constraints as rank() reads them when nothing raises: a string
\* must_have is iterated character by character.
AsRankConstraints(c) ==
    [ max_price |-> IF c.max_price.t = "num" THEN c.max_price.n ELSE NoPrice,
      must_have |-> CASE c.must_have.t = "list" -> c.must_have.v
                      [] c.must_have.t = "str" ->
                            [i \in DOMAIN c.must_have.v |-> <<c.must_have.v[i]>>]
                      [] OTHER -> <<>> ]

InitPlan ==
    /\ RankIdle
    /\ ExecIdle
    /\ GenIdle
    /\ ReqIdle
    /\ WfIdle
    /\ FillIdle
    /\ pl_request \in PlanRequests
    /\ pl_text \in OracleTexts
    /\ pl_products \in ScrapeLists
    /\ pl_pc = "oracle"
    /\ pl_plan = [t |-> "none"]
    /\ pl_constraints = [t |-> "none"]
    /\ pl_ranked = <<>>

\* plan_and_search, line 41: plan = planner.plan(req.user_request)
PlanCall ==
    /\ pl_pc = "oracle"
    /\ pl_plan' = Plan(pl_text, pl_request)
    /\ pl_pc' = "planned"
    /\ UNCHANGED <<pl_request, pl_text, pl_products, pl_constraints, pl_ranked>>
    /\ UNCHANGED <<rankVars, execVars, genVars, reqVars, wfVars, fillVars>>

\* plan_and_search, lines 42-46.
PlanUnpack ==
    /\ pl_pc = "planned"
    /\ pl_constraints' = Unpack(pl_plan)
    /\ pl_pc' = IF Unpack(pl_plan).t = "raised" THEN "raised" ELSE "unpacked"
    /\ UNCHANGED <<pl_request, pl_text, pl_products, pl_plan, pl_ranked>>
    /\ UNCHANGED <<rankVars, execVars, genVars, reqVars, wfVars, fillVars>>

\* plan_and_search, lines 68-69, after the scrapers returned pl_products.
PlanRank ==
    /\ pl_pc = "unpacked"
    /\ IF RankRaises(pl_products, pl_constraints)
       THEN pl_pc' = "raised" /\ UNCHANGED pl_ranked
       ELSE /\ pl_pc' = "ranked"
            /\ pl_ranked' = Rank(pl_products, AsRankConstraints(pl_constraints), TRUE)
    /\ UNCHANGED <<pl_request, pl_text, pl_products, pl_plan, pl_constraints>>
    /\ UNCHANGED <<rankVars, execVars, genVars, reqVars, wfVars, fillVars>>

NextPlan ==
    \/ PlanCall
    \/ PlanUnpack
    \/ PlanRank

SpecPlan == InitPlan /\ [][NextPlan]_vars

(***************************************************************************)
(* Claims about planning.                                                  *)
(***************************************************************************)
\* C12: a malformed oracle output is never surfaced: whatever text the oracle
\* returns (not JSON, JSON that is not an object, an object whose max_price
\* or must_have has the wrong type), the discover request gets a plan with
\* the plan's fields and goes through ranking without raising.
C12_MalformedNeverSurfaced ==
    /\ pl_pc # "raised"
    /\ pl_pc \in {"planned", "unpacked", "ranked"} => pl_plan.t = "dict"

(***************************************************************************)
(* ActionExecutor.fill_shipping                                            *)
(***************************************************************************)
\* `mapping`: the logical fields in dict order, each with its locators.
mapping ==
    << [key |-> "first_name",
        candidates |-> <<"input[name='firstName']", "input#firstName",
                         "input[name='firstname']">>],
       [key |-> "last_name",
        candidates |-> <<"input[name='lastName']", "input#lastName",
                         "input[name='lastname']">>],
       [key |-> "address1",
        candidates |-> <<"input[name='address1']", "input#addressLine1",
                         "input[name='address1']">>],
       [key |-> "address2",
        candidates |-> <<"input[name='address2']", "input#addressLine2">>],
       [key |-> "city", candidates |-> <<"input[name='city']">>],
       [key |-> "state",
        candidates |-> <<"input[name='state']", "select[name='state']">>],
       [key |-> "zip",
        candidates |-> <<"input[name='postalCode']", "input[name='zip']">>],
       [key |-> "phone", candidates |-> <<"input[name='phone']">>],
       [key |-> "email", candidates |-> <<"input[name='email']">>] >>

ShippingKeys == {mapping[i].key : i \in DOMAIN mapping}

\* shipping.get(key): None for a key the dict lacks, else its string.
ShippingValues == {None, Some(""), Some("v")}

\* `if not val: continue`
HasValue(shipping, key) == shipping[key] # None /\ shipping[key][1] # ""

\* Position in `mapping` of the first key at or after k that has a value;
\* Len(mapping) + 1 when the loop is over.
RECURSIVE NextKey(_, _)
NextKey(shipping, k) ==
    IF k > Len(mapping) THEN k
    ELSE IF HasValue(shipping, mapping[k].key) THEN k
    ELSE NextKey(shipping, k + 1)

\* What the page can do to one candidate of fill_shipping: the element is
\* absent, query_selector raises, el.fill raises, or the fill completes.
FillOutcomes == {"absent", "raise_query", "raise_fill", "ok"}

\* One iteration of the inner loop: "break" after a completed fill, else
\* "continue" (`if el:` false, or `except Exception: continue`).
FillCandidate_NoBreak(outcome) == "continue"

FillCandidate(outcome) == IF outcome = "ok" THEN "break" ELSE "continue"

\* A candidate locator of the current key is tried.
FillStep ==
    /\ fs_result = "running"
    /\ fs_k <= Len(mapping)
    /\ \E outcome \in FillOutcomes :
          LET key == mapping[fs_k].key
              last == fs_c = Len(mapping[fs_k].candidates)
              leave == FillCandidate(outcome) = "break" \/ last
          IN  /\ fs_last' = <<key, fs_c, outcome>>
              /\ fs_tried' = [fs_tried EXCEPT ![key] = @ + 1]
              /\ fs_fills' = IF outcome = "ok" THEN [fs_fills EXCEPT ![key] = @ + 1]
                             ELSE fs_fills
              /\ fs_success' = (fs_success \/ outcome = "ok")
              /\ fs_k' = IF leave THEN NextKey(fs_shipping, fs_k + 1) ELSE fs_k
              /\ fs_c' = IF leave THEN 1 ELSE fs_c + 1
    /\ UNCHANGED <<fs_shipping, fs_result>>
    /\ UNCHANGED <<rankVars, execVars, genVars, reqVars, wfVars, planVars>>

\* `return success`
FillReturn ==
    /\ fs_result = "running"
    /\ fs_k > Len(mapping)
    /\ fs_result' = IF fs_success THEN "true" ELSE "false"
    /\ UNCHANGED <<fs_shipping, fs_k, fs_c, fs_tried, fs_fills, fs_last, fs_success>>
    /\ UNCHANGED <<rankVars, execVars, genVars, reqVars, wfVars, planVars>>

InitFill ==
    /\ RankIdle
    /\ ExecIdle
    /\ GenIdle
    /\ ReqIdle
    /\ WfIdle
    /\ PlanIdle
    /\ fs_shipping \in [ShippingKeys -> ShippingValues]
    /\ Cardinality({k \in ShippingKeys : fs_shipping[k] # None}) <= MaxFields
    /\ fs_k = NextKey(fs_shipping, 1)
    /\ fs_c = 1
    /\ fs_tried = [k \in ShippingKeys |-> 0]
    /\ fs_fills = [k \in ShippingKeys |-> 0]
    /\ fs_last = << >>
    /\ fs_success = FALSE
    /\ fs_result = "running"

NextFill ==
    \/ FillStep
    \/ FillReturn

SpecFill == InitFill /\ [][NextFill]_vars

(***************************************************************************)
(* Claims about fill_shipping.                                             *)
(***************************************************************************)
\* Position of a key in `mapping`.
C18_KeyPos(key) == CHOOSE i \in DOMAIN mapping : mapping[i].key = key

\* C18, what every state shows: a key without a value is never tried, a key
\* is filled at most once and filled only at the last locator tried for it,
\* and when the call has returned it returned true or false, true exactly
\* when some field was filled, with every key that has a value tried.
C18_FillState ==
    /\ \A k \in DOMAIN fs_tried :
          /\ ~ HasValue(fs_shipping, k) => fs_tried[k] = 0
          /\ fs_tried[k] <= Len(mapping[C18_KeyPos(k)].candidates)
          /\ fs_fills[k] <= 1
          /\ fs_fills[k] <= fs_tried[k]
    /\ fs_result \in {"true", "false", "raised"} =>
          /\ fs_result # "raised"
          /\ fs_result = "true" <=> \E k \in DOMAIN fs_fills : fs_fills[k] >= 1
          /\ \A k \in DOMAIN fs_tried : HasValue(fs_shipping, k) => fs_tried[k] >= 1

\* C18, what every attempt shows: it is made on the next locator of its key,
\* on a key that was not filled before, and keys are visited in the order of
\* `mapping`.
C18_FillAttempt ==
    fs_tried' # fs_tried =>
        LET key == fs_last'[1]
        IN  /\ fs_last'[2] = fs_tried[key] + 1
            /\ fs_tried' = [fs_tried EXCEPT ![key] = @ + 1]
            /\ fs_fills[key] = 0
            /\ \A k \in DOMAIN fs_tried :
                  C18_KeyPos(k) > C18_KeyPos(key) => fs_tried[k] = 0

\* C18: fill_shipping returns true if and only if at least one field was
\* filled: for each field with a non-empty value it tries the field's
\* locators in order and fills at most one, the first that exists and whose
\* fill does not raise; fields without a value are skipped, a failure on one
\* field does not keep later fields from being tried, and it never raises.
C18_FillShipping == [] C18_FillState /\ [][C18_FillAttempt]_vars

\* C18 witness: two fields had a value; every locator of the first failed,
\* one by a fill that raised, the second field was filled at its second
\* locator, and the call returned true.
C18_Witness ==
    /\ fs_result = "true"
    /\ HasValue(fs_shipping, "first_name")
    /\ fs_tried["first_name"] = 3
    /\ fs_fills["first_name"] = 0
    /\ HasValue(fs_shipping, "zip")
    /\ fs_tried["zip"] = 2
    /\ fs_fills["zip"] = 1
    /\ fs_last = <<"zip", 2, "ok">>

====
